---- MODULE Spec2Model ----
(***************************************************************************)
(* Model of the change detector of src/tools/changeDetector.ts: the        *)
(* page-side object window.changeDetector (baseline, thresholds,           *)
(* detectChanges, updateThresholds, resetBaseline) and the four tab tools  *)
(* that inject and drive it (init, detect, reset, update).                 *)
(*                                                                         *)
(* The page's DOM is the environment: getMetrics() returns a metrics       *)
(* vector chosen from Vectors.  Numbers are integers; the percentages      *)
(* (delta / base) * 100 are compared as delta * 100 >= threshold * base,   *)
(* which agrees with the floating-point comparison on the values used      *)
(* here (no quotient of the input set lies on a threshold boundary that    *)
(* binary rounding could move).  Date.now() in a filename is kept as the   *)
(* placeholder "<now>".                                                    *)
(***************************************************************************)
EXTENDS Integers, Sequences, FiniteSets, TLC

VARIABLES
    detector,   \* window.changeDetector of the tab's page, or undefined
    calls,      \* per call slot: the tool handler in flight, its locals and response
    hist        \* history of the engine's operations (not program state): the vector
                \* last classified since the detector was made or reset, and whether
                \* the last operation was resetBaseline

vars == <<detector, calls, hist>>

(***************************************************************************)
(* Bounds of the model.                                                    *)
(***************************************************************************)
\* a page offered to getMetrics differs from BasePage in at most this many metrics
MaxChanged == 1

(***************************************************************************)
(* Values.                                                                 *)
(***************************************************************************)
null == [null |-> TRUE]
undefined == [undefined |-> TRUE]
emptyObject == [empty |-> TRUE]

\* the thresholds literal of the injected object
DefaultThresholds ==
    [major |-> [elementDelta |-> 100, dialogDelta |-> 1, overlayDelta |-> 1,
                formDelta |-> 1, zIndexDelta |-> 500, viewportDelta |-> 30],
     minor |-> [elementDelta |-> 20, viewportDelta |-> 5]]

\* the object the injected script assigns to window.changeDetector
FreshDetector == [baseline |-> null, thresholds |-> DefaultThresholds]

MetricNames ==
    {"elements", "url", "dialogs", "overlays", "forms", "inputs", "buttons",
     "links", "viewportHeight", "visibleElements", "maxZIndex",
     "fixedElements", "absoluteElements"}

\* a page as getMetrics reports it
BasePage ==
    [elements |-> 100, url |-> "/a", dialogs |-> 0, overlays |-> 0, forms |-> 1,
     inputs |-> 2, buttons |-> 1, links |-> 3, viewportHeight |-> 800,
     visibleElements |-> 40, maxZIndex |-> 0, fixedElements |-> 0,
     absoluteElements |-> 0]

\* the other values each metric of a page takes
OtherValues(m) ==
    CASE m = "elements" -> {120, 199, 200}
      [] m = "url" -> {"/b"}
      [] m = "dialogs" -> {1, 2}
      [] m = "overlays" -> {1}
      [] m = "forms" -> {0, 2}
      [] m = "inputs" -> {3}
      [] m = "buttons" -> {2}
      [] m = "links" -> {4}
      [] m = "viewportHeight" -> {0, 1200}
      [] m = "visibleElements" -> {41, 44}
      [] m = "maxZIndex" -> {499, 500}
      [] m = "fixedElements" -> {1}
      [] m = "absoluteElements" -> {1}

\* the pages that differ from p in exactly one metric, set to one of its other values
OneChange(p) ==
    UNION {{[p EXCEPT ![m] = x] : x \in OtherValues(m) \ {p[m]}} : m \in MetricNames}

RECURSIVE Perturb(_, _)
\* the pages obtained from the pages of S by at most k changes of one metric
Perturb(S, k) ==
    IF k = 0 THEN S ELSE Perturb(S \cup UNION {OneChange(p) : p \in S}, k - 1)

Changed(p) == {m \in MetricNames : p[m] # BasePage[m]}

\* what getMetrics may return: the pages with at most MaxChanged metrics off BasePage
Vectors == {p \in Perturb({BasePage}, MaxChanged) : Cardinality(Changed(p)) <= MaxChanged}

(***************************************************************************)
(* The engine: window.changeDetector.                                      *)
(***************************************************************************)
Abs(x) == IF x < 0 THEN 0 - x ELSE x

\* x || 1
OrOne(x) == IF x = 0 THEN 1 ELSE x

\* mutant: a signed difference taken as a distance, like the other deltas
Distance(current, baseline) == Abs(current - baseline)

\* current - baseline, signed: the dialogs, overlays and zIndex deltas
Increase(current, baseline) == current - baseline

\* the delta object of detectChanges
Delta(current, baseline) ==
    [elements |-> Abs(current.elements - baseline.elements),
     dialogs |-> Increase(current.dialogs, baseline.dialogs),
     overlays |-> Increase(current.overlays, baseline.overlays),
     forms |-> Abs(current.forms - baseline.forms),
     inputs |-> Abs(current.inputs - baseline.inputs),
     buttons |-> Abs(current.buttons - baseline.buttons),
     links |-> Abs(current.links - baseline.links),
     viewportHeight |-> Abs(current.viewportHeight - baseline.viewportHeight),
     visibleElements |-> Abs(current.visibleElements - baseline.visibleElements),
     zIndex |-> Increase(current.maxZIndex, baseline.maxZIndex),
     urlChanged |-> current.url # baseline.url,
     fixedElements |-> Abs(current.fixedElements - baseline.fixedElements),
     absoluteElements |-> Abs(current.absoluteElements - baseline.absoluteElements)]

\* (d / (b || 1)) * 100 >= t, for d >= 0 and b >= 0
PercentAtLeast(d, b, t) == d * 100 >= t * OrOne(b)

\* ((d / (b || 1)) * 100).toFixed(1), in tenths of a percent (round half up)
ToFixed1(d, b) == (d * 2000 + OrOne(b)) \div (2 * OrOne(b))

\* a reason string: its text with the number it interpolates ("#" in the text)
Reason(text, n) == [text |-> text, n |-> n]

\* r.includes(needle), for the reason texts the engine produces
Includes(r, needle) ==
    CASE needle = "dialog" -> r.text = "# dialog(s) appeared"
      [] needle = "overlay" -> r.text = "# overlay(s) appeared"
      [] needle = "URL changed" -> r.text = "URL changed"
      [] needle = "Form count changed" -> r.text = "Form count changed by #"

\* mutant: a count that did not change is reported too
NotNegative(n) == n >= 0

\* n > 0
Positive(n) == n > 0

\* mutant: a delta equal to its threshold does not count
Exceeds(d, t) == d > t

\* d >= t
AtLeast(d, t) == d >= t

\* mutant: dialogs are compared with major.dialogDelta
DialogsReachThreshold(delta, thresholds) == delta.dialogs >= thresholds.major.dialogDelta

\* delta.dialogs > 0
DialogsAppeared(delta, thresholds) == Positive(delta.dialogs)

\* mutant: overlays are compared with major.overlayDelta
OverlaysReachThreshold(delta, thresholds) == delta.overlays >= thresholds.major.overlayDelta

\* delta.overlays > 0
OverlaysAppeared(delta, thresholds) == Positive(delta.overlays)

\* the sequence s when the condition holds, the empty sequence otherwise
If(cond, s) == IF cond THEN s ELSE <<>>

\* the majorReasons array after its pushes
MajorReasons(delta, baseline, thresholds) ==
    If(delta.urlChanged, <<Reason("URL changed", 0)>>)
    \o If(DialogsAppeared(delta, thresholds), <<Reason("# dialog(s) appeared", delta.dialogs)>>)
    \o If(OverlaysAppeared(delta, thresholds),
          <<Reason("# overlay(s) appeared", delta.overlays)>>)
    \o If(AtLeast(delta.forms, thresholds.major.formDelta),
          <<Reason("Form count changed by #", delta.forms)>>)
    \o If(AtLeast(delta.elements, thresholds.major.elementDelta),
          <<Reason("# elements changed", delta.elements)>>)
    \o If(AtLeast(delta.zIndex, thresholds.major.zIndexDelta),
          <<Reason("Z-index increased by #", delta.zIndex)>>)
    \o If(Positive(delta.fixedElements),
          <<Reason("# fixed elements changed", delta.fixedElements)>>)
    \o If(Positive(delta.absoluteElements),
          <<Reason("# absolute elements changed", delta.absoluteElements)>>)
    \o If(PercentAtLeast(delta.viewportHeight, baseline.viewportHeight,
                         thresholds.major.viewportDelta),
          <<Reason("Viewport height changed #%",
                   ToFixed1(delta.viewportHeight, baseline.viewportHeight))>>)

\* the pushes to minorReasons, made when majorReasons is empty
MinorPushes(delta, baseline, thresholds) ==
    If(AtLeast(delta.elements, thresholds.minor.elementDelta),
       <<Reason("# elements changed", delta.elements)>>)
    \o If(PercentAtLeast(delta.visibleElements, baseline.visibleElements,
                         thresholds.minor.viewportDelta),
          <<Reason("#% visibility changes",
                   ToFixed1(delta.visibleElements, baseline.visibleElements))>>)
    \o If(Positive(delta.buttons), <<Reason("# button(s) changed", delta.buttons)>>)
    \o If(Positive(delta.inputs), <<Reason("# input(s) changed", delta.inputs)>>)

\* mutant: the minor conditions are evaluated whatever majorReasons holds
MinorReasonsAlways(majorReasons, delta, baseline, thresholds) ==
    MinorPushes(delta, baseline, thresholds)

\* the minorReasons array
MinorReasons(majorReasons, delta, baseline, thresholds) ==
    IF Len(majorReasons) = 0 THEN MinorPushes(delta, baseline, thresholds) ELSE <<>>

\* mutant: a result without major reasons has level none
LevelMajorOnly(majorReasons, minorReasons) ==
    IF Len(majorReasons) > 0 THEN "major" ELSE "none"

Level(majorReasons, minorReasons) ==
    IF Len(majorReasons) > 0 THEN "major"
    ELSE IF Len(minorReasons) > 0 THEN "minor" ELSE "none"

\* mutant: a form-count reason does not ask for a snapshot
ShouldTakeSnapshotNoForms(majorReasons) ==
    \E i \in 1..Len(majorReasons) :
        \/ Includes(majorReasons[i], "dialog")
        \/ Includes(majorReasons[i], "overlay")
        \/ Includes(majorReasons[i], "URL changed")

ShouldTakeSnapshot(majorReasons) ==
    \E i \in 1..Len(majorReasons) :
        \/ Includes(majorReasons[i], "dialog")
        \/ Includes(majorReasons[i], "overlay")
        \/ Includes(majorReasons[i], "URL changed")
        \/ Includes(majorReasons[i], "Form count changed")

\* text.toLowerCase().replace(/[^a-z0-9]/g, '_') of a reason text
Slug(r) ==
    [text |-> CASE r.text = "URL changed" -> "url_changed"
                [] r.text = "# dialog(s) appeared" -> "#_dialog_s__appeared"
                [] r.text = "# overlay(s) appeared" -> "#_overlay_s__appeared"
                [] r.text = "Form count changed by #" -> "form_count_changed_by_#"
                [] r.text = "# elements changed" -> "#_elements_changed"
                [] r.text = "Z-index increased by #" -> "z_index_increased_by_#"
                [] r.text = "# fixed elements changed" -> "#_fixed_elements_changed"
                [] r.text = "# absolute elements changed" -> "#_absolute_elements_changed"
                [] r.text = "Viewport height changed #%" -> "viewport_height_changed_#_",
     n |-> r.n]

NoSlug == [text |-> "", n |-> 0]

\* mutant: the slug is made from the reason pushed last
SuggestedFilenameFromLast(level, majorReasons) ==
    IF level = "major"
    THEN [name |-> "major_change_<slug>_<now>.png",
          slug |-> Slug(majorReasons[Len(majorReasons)])]
    ELSE IF level = "minor"
    THEN [name |-> "minor_change_<now>.png", slug |-> NoSlug]
    ELSE [name |-> "no_change.png", slug |-> NoSlug]

SuggestedFilename(level, majorReasons) ==
    IF level = "major"
    THEN [name |-> "major_change_<slug>_<now>.png", slug |-> Slug(majorReasons[1])]
    ELSE IF level = "minor"
    THEN [name |-> "minor_change_<now>.png", slug |-> NoSlug]
    ELSE [name |-> "no_change.png", slug |-> NoSlug]

\* the result object of a comparison against the baseline
Compare(current, baseline, thresholds) ==
    LET delta == Delta(current, baseline)
        majorReasons == MajorReasons(delta, baseline, thresholds)
        minorReasons == MinorReasons(majorReasons, delta, baseline, thresholds)
        level == Level(majorReasons, minorReasons)
    IN  [changed |-> level # "none", level |-> level,
         shouldTakeScreenshot |-> level # "none",
         shouldTakeSnapshot |-> ShouldTakeSnapshot(majorReasons),
         suggestedFilename |-> SuggestedFilename(level, majorReasons),
         reasons |-> majorReasons \o minorReasons,
         majorReasons |-> majorReasons, minorReasons |-> minorReasons,
         metrics |-> [current |-> current, delta |-> delta, baseline |-> baseline]]

\* mutant: the first observation is compared against a blank page
BaselineInitializedBlank(current) ==
    Compare(current, [m \in MetricNames |-> IF m = "url" THEN current.url ELSE 0],
            DefaultThresholds)

\* the object returned when there is no baseline
BaselineInitialized(current) ==
    [changed |-> FALSE, level |-> "none", reason |-> "Baseline initialized",
     shouldTakeScreenshot |-> FALSE, shouldTakeSnapshot |-> FALSE,
     suggestedFilename |-> [name |-> "baseline_set.png", slug |-> NoSlug],
     reasons |-> <<>>, majorReasons |-> <<>>, minorReasons |-> <<>>,
     metrics |-> [current |-> current, delta |-> emptyObject, baseline |-> current]]

\* mutant: the baseline is replaced only when there was none
NewBaselineKept(d, current) == d.baseline

\* the baseline detectChanges leaves behind after a comparison
NewBaseline(d, current) == current

\* detectChanges() on detector d when getMetrics() returns current:
\* the detector afterwards and the value returned
DetectChanges(d, current) ==
    IF d.baseline = null
    THEN [detector |-> [d EXCEPT !.baseline = current],
          result |-> BaselineInitialized(current)]
    ELSE [detector |-> [d EXCEPT !.baseline = NewBaseline(d, current)],
          result |-> Compare(current, d.baseline, d.thresholds)]

(***************************************************************************)
(* Threshold arguments.  An object that came through the tool's schema is  *)
(* a set of <<key, value>> pairs: the keys it has, with their values.      *)
(***************************************************************************)
Has(obj, key) == \E p \in obj : p[1] = key
Get(obj, key) == (CHOOSE p \in obj : p[1] = key)[2]

\* the value of target[f] after Object.assign(target, source)
Assigned(target, source, f) == IF Has(source, f) THEN Get(source, f) ELSE target[f]

\* mutant: the tier is rebuilt from the defaults and the argument
AssignMajorFromDefaults(target, source) ==
    [f \in DOMAIN target |-> Assigned(DefaultThresholds.major, source, f)]

\* this.thresholds.major after Object.assign(this.thresholds.major, source)
AssignMajor(target, source) ==
    [elementDelta |-> Assigned(target, source, "elementDelta"),
     dialogDelta |-> Assigned(target, source, "dialogDelta"),
     overlayDelta |-> Assigned(target, source, "overlayDelta"),
     formDelta |-> Assigned(target, source, "formDelta"),
     zIndexDelta |-> Assigned(target, source, "zIndexDelta"),
     viewportDelta |-> Assigned(target, source, "viewportDelta")]

\* this.thresholds.minor after Object.assign(this.thresholds.minor, source)
AssignMinor(target, source) ==
    [elementDelta |-> Assigned(target, source, "elementDelta"),
     viewportDelta |-> Assigned(target, source, "viewportDelta")]

\* this.thresholds after updateThresholds(newThresholds)
MergedThresholds(thresholds, newThresholds) ==
    [major |-> IF Has(newThresholds, "major")
               THEN AssignMajor(thresholds.major, Get(newThresholds, "major"))
               ELSE thresholds.major,
     minor |-> IF Has(newThresholds, "minor")
               THEN AssignMinor(thresholds.minor, Get(newThresholds, "minor"))
               ELSE thresholds.minor]

\* mutant: new thresholds start over from an absent baseline
UpdateThresholdsRebaselined(d, newThresholds) ==
    LET merged == MergedThresholds(d.thresholds, newThresholds)
    IN  [detector |-> [d EXCEPT !.thresholds = merged, !.baseline = null],
         result |-> [success |-> TRUE, thresholds |-> merged]]

\* updateThresholds(newThresholds) on detector d
UpdateThresholds(d, newThresholds) ==
    LET merged == MergedThresholds(d.thresholds, newThresholds)
    IN  [detector |-> [d EXCEPT !.thresholds = merged],
         result |-> [success |-> TRUE, thresholds |-> merged]]

\* mutant: the baseline is returned and not cleared
ResetBaselineKept(d) ==
    [detector |-> d,
     result |-> [success |-> TRUE, message |-> "Baseline reset",
                 previousBaseline |-> d.baseline]]

\* mutant: previousBaseline is read after the baseline is cleared
ResetBaselineReadLate(d) ==
    [detector |-> [d EXCEPT !.baseline = null],
     result |-> [success |-> TRUE, message |-> "Baseline reset",
                 previousBaseline |-> null]]

\* resetBaseline() on detector d
ResetBaseline(d) ==
    [detector |-> [d EXCEPT !.baseline = null],
     result |-> [success |-> TRUE, message |-> "Baseline reset",
                 previousBaseline |-> d.baseline]]

\* the threshold arguments the tools are called with
ThresholdArgs ==
    { {},
      {<<"major", {}>>},
      {<<"major", {<<"elementDelta", 5>>}>>},
      {<<"major", {<<"dialogDelta", 3>>, <<"overlayDelta", 2>>}>>,
       <<"minor", {<<"viewportDelta", 10>>}>>},
      {<<"major", {<<"formDelta", 2>>, <<"zIndexDelta", -1>>, <<"viewportDelta", 50>>}>>,
       <<"minor", {<<"elementDelta", 0>>}>>} }

\* params of a tool call: init's thresholds are optional
NoParams == [given |-> FALSE, thresholds |-> {}]
WithThresholds(t) == [given |-> TRUE, thresholds |-> t]
InitParams == {NoParams} \cup {WithThresholds(t) : t \in ThresholdArgs}
UpdateParams == {WithThresholds(t) : t \in ThresholdArgs}

(***************************************************************************)
(* The tool handlers.  A handler runs in steps separated by its awaits of  *)
(* page.evaluate; the function it evaluates runs in the page without       *)
(* interruption, and the handler's code up to its next await is taken      *)
(* with it (it touches only the handler's locals and its response).        *)
(***************************************************************************)
CallIds == {1, 2}

NotInitializedMessage ==
    "Change detector not initialized. Please call browser_init_change_detector first."

\* a call slot: the handler's place, its params, the value its engine call returned,
\* what it added to the response and whether it threw; and, as history, whether it
\* invoked the engine, whether an evaluate of it rejected, the detector its
\* injection replaced, and whether its detectChanges was the first since the
\* detector was made or reset, and came right after a reset, and whether another
\* call's detectChanges ran while this call was in progress
Idle == [tool |-> "", pc |-> "idle", params |-> NoParams, result |-> null,
         response |-> <<>>, threw |-> FALSE,
         invoked |-> FALSE, rejected |-> FALSE, replaced |-> undefined,
         first |-> FALSE, afterReset |-> FALSE, overtaken |-> FALSE]

\* the first await of each handler
FirstPc(tool) == IF tool = "init" THEN "init_check" ELSE "is_initialized"

\* the message of the handler's catch block
FailureMessage(tool) ==
    CASE tool = "init" -> "Failed to initialize change detector"
      [] tool = "detect" -> "Failed to detect changes"
      [] tool = "reset" -> "Failed to reset baseline"
      [] tool = "update" -> "Failed to update thresholds"

\* the results the detect handler adds for a result of detectChanges
DetectResponse(result) ==
    <<[text |-> "Change detection completed: # level changes detected",
       level |-> result.level]>>
    \o (IF result.changed
        THEN <<[text |-> "Reasons, recommendations and suggested filename",
                level |-> result.level]>>
        ELSE <<[text |-> "No significant changes detected", level |-> result.level]>>)

Message(text) == [text |-> text, level |-> ""]

Init ==
    /\ detector = undefined
    /\ calls = [c \in CallIds |-> Idle]
    /\ hist = [lastClassified |-> null, resetLast |-> FALSE]

\* an engine operation is recorded in the history
Record(op) == [hist EXCEPT !.resetLast = (op = "resetBaseline")]

\* the host dispatcher calls a tool's handler
Start(c, tool, params) ==
    /\ calls[c].pc = "idle"
    /\ calls' = [calls EXCEPT ![c] = [Idle EXCEPT !.tool = tool, !.pc = FirstPc(tool),
                                                  !.params = params]]
    /\ UNCHANGED <<detector, hist>>

\* mutant: the script leaves a detector that is already there alone
InjectedOnce(d) == IF d = undefined THEN FreshDetector ELSE d

\* window.changeDetector after the injected script has run on a page that held d
Injected(d) == FreshDetector

\* init: the first evaluate only logs whether a detector exists
InitCheck(c) ==
    /\ calls[c].pc = "init_check"
    /\ calls' = [calls EXCEPT ![c].pc = "init_inject"]
    /\ UNCHANGED <<detector, hist>>

InitDone(call) ==
    [call EXCEPT !.pc = "done",
                 !.response = <<Message("Change detector initialized successfully")>>]

\* init: evaluate(changeDetectorJS) assigns a new object to window.changeDetector
InitInject(c) ==
    /\ calls[c].pc = "init_inject"
    /\ detector' = Injected(detector)
    /\ hist' = [Record("construct") EXCEPT !.lastClassified = null]
    /\ calls' = [calls EXCEPT ![c] =
                    IF calls[c].params.given
                    THEN [@ EXCEPT !.pc = "init_apply", !.replaced = detector]
                    ELSE InitDone([@ EXCEPT !.replaced = detector])]

\* init: the custom thresholds are applied by a further evaluate
InitApply(c) ==
    /\ calls[c].pc = "init_apply"
    /\ detector' = UpdateThresholds(detector, calls[c].params.thresholds).detector
    /\ hist' = Record("updateThresholds")
    /\ calls' = [calls EXCEPT ![c] = InitDone(@)]

\* mutant: a missing detector is an error
NotInitializedThrows(call) ==
    [call EXCEPT !.pc = "done", !.threw = TRUE,
                 !.response = <<Message(FailureMessage(call.tool))>>]

\* the handler's return when the check finds no detector
NotInitialized(call) ==
    [call EXCEPT !.pc = "done", !.response = <<Message(NotInitializedMessage)>>]

\* detect, reset, update: typeof window.changeDetector !== 'undefined'
IsInitialized(c) ==
    /\ calls[c].pc = "is_initialized"
    /\ calls' = [calls EXCEPT ![c] =
                    IF detector = undefined THEN NotInitialized(@)
                    ELSE [@ EXCEPT !.pc = "call"]]
    /\ UNCHANGED <<detector, hist>>

\* from one vector to the next only the element count moved, by less than the
\* default minor.elementDelta
SmallStep(previous, current) ==
    /\ \A m \in MetricNames \ {"elements"} : current[m] = previous[m]
    /\ Abs(current.elements - previous.elements) < DefaultThresholds.minor.elementDelta

\* the history after detectChanges on current; a history that follows drift also
\* keeps the vector that started the present baseline chain and whether every
\* step since has been a small one
Classified(current) ==
    LET h == [Record("detectChanges") EXCEPT !.lastClassified = current]
    IN  IF "origin" \notin DOMAIN hist THEN h
        ELSE IF hist.lastClassified = null
        THEN [h EXCEPT !.origin = current, !.steady = TRUE]
        ELSE [h EXCEPT !.steady = hist.steady /\ SmallStep(hist.lastClassified, current)]

\* the handler of the call has been entered and has not finished
InProgress(call) == call.pc \notin {"idle", "done"}

\* detect: window.changeDetector.detectChanges(), getMetrics() returning current
CallDetectChanges(c, current) ==
    /\ calls[c].pc = "call"
    /\ calls[c].tool = "detect"
    /\ LET r == DetectChanges(detector, current)
       IN  /\ detector' = r.detector
           /\ calls' = [k \in CallIds |->
                           IF k = c
                           THEN [calls[c] EXCEPT !.pc = "done", !.invoked = TRUE,
                                                 !.result = r.result,
                                                 !.response = DetectResponse(r.result),
                                                 !.first = (hist.lastClassified = null),
                                                 !.afterReset = hist.resetLast]
                           ELSE [calls[k] EXCEPT !.overtaken = @ \/ InProgress(calls[k])]]
    /\ hist' = Classified(current)

\* reset: window.changeDetector.resetBaseline()
CallResetBaseline(c) ==
    /\ calls[c].pc = "call"
    /\ calls[c].tool = "reset"
    /\ LET r == ResetBaseline(detector)
       IN  /\ detector' = r.detector
           /\ calls' = [calls EXCEPT ![c] =
                           [@ EXCEPT !.pc = "done", !.invoked = TRUE,
                                     !.result = r.result,
                                     !.response =
                                        <<Message("Change detection baseline reset successfully")>>]]
    /\ hist' = [Record("resetBaseline") EXCEPT !.lastClassified = null]

\* update: window.changeDetector.updateThresholds(params.thresholds)
CallUpdateThresholds(c) ==
    /\ calls[c].pc = "call"
    /\ calls[c].tool = "update"
    /\ LET r == UpdateThresholds(detector, calls[c].params.thresholds)
       IN  /\ detector' = r.detector
           /\ calls' = [calls EXCEPT ![c] =
                           [@ EXCEPT !.pc = "done", !.invoked = TRUE,
                                     !.result = r.result,
                                     !.response =
                                        <<Message("Change detection thresholds updated successfully")>>]]
    /\ hist' = Record("updateThresholds")

\* an awaited page.evaluate rejects: the catch block reports and rethrows
EvaluateFails(c) ==
    /\ calls[c].pc \in {"init_check", "init_inject", "init_apply", "is_initialized", "call"}
    /\ calls' = [calls EXCEPT ![c] =
                    [@ EXCEPT !.pc = "done", !.threw = TRUE, !.rejected = TRUE,
                              !.response = <<Message(FailureMessage(calls[c].tool))>>]]
    /\ UNCHANGED <<detector, hist>>

\* the handler has returned (or thrown) and the dispatcher has sent its response
Return(c) ==
    /\ calls[c].pc = "done"
    /\ calls' = [calls EXCEPT ![c] = Idle]
    /\ UNCHANGED <<detector, hist>>

\* tool calls arrive one at a time: each is issued when the previous one has returned
Next ==
    \/ \E params \in InitParams : Start(1, "init", params)
    \/ Start(1, "detect", NoParams)
    \/ Start(1, "reset", NoParams)
    \/ \E params \in UpdateParams : Start(1, "update", params)
    \/ InitCheck(1)
    \/ InitInject(1)
    \/ InitApply(1)
    \/ IsInitialized(1)
    \/ \E current \in Vectors : CallDetectChanges(1, current)
    \/ CallResetBaseline(1)
    \/ CallUpdateThresholds(1)
    \/ EvaluateFails(1)
    \/ Return(1)

Spec == Init /\ [][Next]_vars

(***************************************************************************)
(* Overlapping tool calls: the dispatcher enters a handler while another   *)
(* is waiting on an evaluate.  The page runs one evaluated function at a    *)
(* time, so the handlers interleave at their awaits.                        *)
(***************************************************************************)
\* what getMetrics returns in the overlapping runs
ConcVectors ==
    {BasePage, [BasePage EXCEPT !.elements = 120], [BasePage EXCEPT !.dialogs = 1]}

\* the threshold argument of the overlapping runs
ConcParams == {WithThresholds({<<"major", {<<"elementDelta", 5>>}>>})}

NextConc ==
    \E c \in CallIds :
        \/ \E params \in {NoParams} \cup ConcParams : Start(c, "init", params)
        \/ Start(c, "detect", NoParams)
        \/ Start(c, "reset", NoParams)
        \/ \E params \in ConcParams : Start(c, "update", params)
        \/ InitCheck(c)
        \/ InitInject(c)
        \/ InitApply(c)
        \/ IsInitialized(c)
        \/ \E current \in ConcVectors : CallDetectChanges(c, current)
        \/ CallResetBaseline(c)
        \/ CallUpdateThresholds(c)
        \/ EvaluateFails(c)
        \/ Return(c)

SpecConc == Init /\ [][NextConc]_vars

(***************************************************************************)
(* A page whose element count drifts, watched under the default           *)
(* thresholds: init without thresholds and detect calls, one at a time.    *)
(***************************************************************************)
MaxDrift == 7

\* what getMetrics returns on the drifting page
DriftVectors == {[BasePage EXCEPT !.elements = 100 + 15 * k] : k \in 0..MaxDrift}

InitDrift ==
    /\ detector = undefined
    /\ calls = [c \in CallIds |-> Idle]
    /\ hist = [lastClassified |-> null, resetLast |-> FALSE, origin |-> null,
               steady |-> TRUE]

NextDrift ==
    \/ Start(1, "init", NoParams)
    \/ Start(1, "detect", NoParams)
    \/ InitCheck(1)
    \/ InitInject(1)
    \/ IsInitialized(1)
    \/ \E current \in DriftVectors : CallDetectChanges(1, current)
    \/ EvaluateFails(1)
    \/ Return(1)

SpecDrift == InitDrift /\ [][NextDrift]_vars

(***************************************************************************)
(* Properties.                                                             *)
(***************************************************************************)
\* call c is a detect call whose detectChanges() has returned
Detected(c) == calls[c].pc = "done" /\ calls[c].tool = "detect" /\ calls[c].invoked

\* C1: the first detectChanges since the detector was made or its baseline reset
\* returns the neutral result (level none, changed false, no reasons, no
\* screenshot, no snapshot, filename baseline_set.png) whatever the vector and
\* the thresholds, and leaves the baseline equal to the vector.
C1_FirstClassifyNeutral ==
    \A c \in CallIds :
        Detected(c) /\ calls[c].first =>
            LET r == calls[c].result
            IN  /\ r.level = "none"
                /\ r.changed = FALSE
                /\ r.majorReasons = <<>>
                /\ r.minorReasons = <<>>
                /\ r.shouldTakeScreenshot = FALSE
                /\ r.shouldTakeSnapshot = FALSE
                /\ r.suggestedFilename.name = "baseline_set.png"
                /\ detector.baseline = hist.lastClassified

\* C1 witness: a first detectChanges after a reset, under thresholds that would
\* make any comparison major, on a page that is not the base page
C1_Witness ==
    /\ Detected(1) /\ calls[1].first /\ calls[1].afterReset
    /\ detector.thresholds.major.zIndexDelta = -1
    /\ hist.lastClassified # BasePage

\* C2: the baseline is the vector of the most recent detectChanges since the
\* detector was made or reset, and is absent exactly when there was none.
C2_SlidingBaseline ==
    /\ detector = undefined => hist.lastClassified = null
    /\ detector # undefined => detector.baseline = hist.lastClassified

\* C2 witness: a comparison that returned level none and still moved the baseline
C2_Witness ==
    /\ Detected(1) /\ ~calls[1].first
    /\ calls[1].result.level = "none"
    /\ calls[1].result.metrics.baseline # calls[1].result.metrics.current
    /\ detector.baseline = calls[1].result.metrics.current

\* C3: a result never carries both major and minor reasons.
C3_MajorPreemptsMinor ==
    \A c \in CallIds :
        Detected(c) =>
            (calls[c].result.majorReasons # <<>> => calls[c].result.minorReasons = <<>>)

\* C3 witness: a major result on a comparison whose minor conditions hold too
C3_Witness ==
    /\ Detected(1) /\ ~calls[1].first
    /\ calls[1].result.majorReasons # <<>>
    /\ MinorPushes(calls[1].result.metrics.delta, calls[1].result.metrics.baseline,
                   detector.thresholds) # <<>>

\* the step of call c in which its detectChanges() runs
DetectStep(c) ==
    calls[c].pc = "call" /\ calls[c].tool = "detect" /\ calls'[c].pc = "done"
    /\ calls'[c].invoked

\* call c's detectChanges() runs on the vector the previous detectChanges had,
\* with no reset or injection between the two
SecondOfSame(c) ==
    DetectStep(c) /\ hist.lastClassified # null
                  /\ hist'.lastClassified = hist.lastClassified

\* a result of level none, not changed, with no reasons
IsNone(r) ==
    /\ r.level = "none"
    /\ r.changed = FALSE
    /\ r.majorReasons = <<>>
    /\ r.minorReasons = <<>>

\* the six thresholds a comparison consults are positive
PositiveThresholds(t) ==
    /\ t.major.formDelta > 0 /\ t.major.elementDelta > 0 /\ t.major.zIndexDelta > 0
    /\ t.major.viewportDelta > 0 /\ t.minor.elementDelta > 0 /\ t.minor.viewportDelta > 0

\* C4 as stated: of two consecutive detectChanges with identical vectors and no
\* reset between them, the second returns level none, changed false and no
\* reasons, under every threshold configuration the detector can hold.
C4_IdenticalIsNone ==
    [][\A c \in CallIds : SecondOfSame(c) => IsNone(calls'[c].result)]_vars

\* C4 amended: the same, under every threshold configuration in which the six
\* thresholds a comparison consults (major formDelta, elementDelta, zIndexDelta,
\* viewportDelta; minor elementDelta, viewportDelta) are positive.
C4_IdenticalIsNoneWhenPositive ==
    [][\A c \in CallIds :
        SecondOfSame(c) /\ PositiveThresholds(detector.thresholds) =>
            IsNone(calls'[c].result)]_vars

\* C4 witness: a vector classified twice in a row under updated, positive thresholds
C4_Witness ==
    /\ Detected(1) /\ ~calls[1].first
    /\ calls[1].result.metrics.baseline = hist.lastClassified
    /\ detector.thresholds.major.elementDelta = 5
    /\ PositiveThresholds(detector.thresholds)
    /\ calls[1].result.level = "none"

TierFields(tier) ==
    IF tier = "major"
    THEN {"elementDelta", "dialogDelta", "overlayDelta", "formDelta", "zIndexDelta",
          "viewportDelta"}
    ELSE {"elementDelta", "viewportDelta"}

\* the step of call c in which its updateThresholds() runs
UpdateStep(c) ==
    calls[c].pc = "call" /\ calls[c].tool = "update" /\ calls'[c].pc = "done"
    /\ calls'[c].invoked

\* C5: updateThresholds gives every field present in its argument the value
\* supplied, leaves every other field (and a tier absent from the argument) as
\* it was, and returns the resulting configuration.
C5_PerFieldMerge ==
    [][\A c \in CallIds :
        UpdateStep(c) =>
            LET arg == calls[c].params.thresholds
            IN  /\ \A tier \in {"major", "minor"} : \A f \in TierFields(tier) :
                       detector'.thresholds[tier][f] =
                           IF Has(arg, tier) /\ Has(Get(arg, tier), f)
                           THEN Get(Get(arg, tier), f)
                           ELSE detector.thresholds[tier][f]
                /\ calls'[c].result.thresholds = detector'.thresholds]_vars

\* C5 witness: updateThresholds({major: {elementDelta: 5}}) has set that field
\* and kept the other fields that earlier updates had set
C5_Witness ==
    /\ calls[1].pc = "done" /\ calls[1].tool = "update" /\ calls[1].invoked
    /\ calls[1].params.thresholds = {<<"major", {<<"elementDelta", 5>>}>>}
    /\ detector.thresholds.major.elementDelta = 5
    /\ detector.thresholds.major.dialogDelta = 3
    /\ detector.thresholds.minor.viewportDelta = 10

\* C6: a detectChanges called right after resetBaseline returns what it returns
\* on a fresh detector and leaves the detector as a fresh one with the same
\* thresholds would be left: nothing of what came before the reset remains.
C6_ResetThenClassifyAsFresh ==
    \A c \in CallIds :
        Detected(c) /\ calls[c].afterReset =>
            LET v == hist.lastClassified
                fresh == DetectChanges(FreshDetector, v)
            IN  /\ calls[c].result = fresh.result
                /\ detector.baseline = fresh.detector.baseline
                /\ detector = [fresh.detector EXCEPT !.thresholds = detector.thresholds]

\* C6 witness: a detectChanges right after a reset on a detector whose thresholds
\* had been updated
C6_Witness ==
    /\ Detected(1) /\ calls[1].afterReset
    /\ detector.thresholds # DefaultThresholds
    /\ detector.baseline # BasePage

\* C7: when init has completed, the baseline is absent and every threshold has
\* the value given in init's argument, or its default where none was given.
C7_InitGivesDefaults ==
    \A c \in CallIds :
        calls[c].pc = "done" /\ calls[c].tool = "init" /\ ~calls[c].threw =>
            LET arg == calls[c].params.thresholds
            IN  /\ detector # undefined
                /\ detector.baseline = null
                /\ \A tier \in {"major", "minor"} : \A f \in TierFields(tier) :
                       detector.thresholds[tier][f] =
                           IF calls[c].params.given /\ Has(arg, tier)
                              /\ Has(Get(arg, tier), f)
                           THEN Get(Get(arg, tier), f)
                           ELSE DefaultThresholds[tier][f]

\* C7 witness: init with {major: {elementDelta: 5}} has completed on a tab whose
\* detector held a baseline and updated thresholds
C7_Witness ==
    /\ calls[1].pc = "done" /\ calls[1].tool = "init" /\ ~calls[1].threw
    /\ calls[1].params = WithThresholds({<<"major", {<<"elementDelta", 5>>}>>})
    /\ calls[1].replaced # undefined
    /\ calls[1].replaced.baseline # null
    /\ calls[1].replaced.thresholds.minor.viewportDelta = 10

\* the vectors differ in their element counts at most
OnlyElementsDiffer(a, b) == \A m \in MetricNames \ {"elements"} : a[m] = b[m]

\* C8: under the default thresholds, when the vector differs from the baseline
\* only in its element count, by d: d < 20 gives none, 20 <= d < 100 gives minor
\* with a screenshot and no snapshot, d >= 100 gives major.
C8_ElementCountLevels ==
    \A c \in CallIds :
        Detected(c) /\ ~calls[c].first /\ detector.thresholds = DefaultThresholds
        /\ OnlyElementsDiffer(calls[c].result.metrics.current,
                              calls[c].result.metrics.baseline) =>
            LET r == calls[c].result
                d == Abs(r.metrics.current.elements - r.metrics.baseline.elements)
            IN  /\ d < 20 => r.level = "none"
                /\ 20 <= d /\ d < 100 =>
                       /\ r.level = "minor"
                       /\ r.shouldTakeScreenshot = TRUE
                       /\ r.shouldTakeSnapshot = FALSE
                /\ d >= 100 => r.level = "major"

\* C8 witness: under the default thresholds the element count alone moved by 20
C8_Witness ==
    /\ Detected(1) /\ ~calls[1].first /\ detector.thresholds = DefaultThresholds
    /\ OnlyElementsDiffer(calls[1].result.metrics.current,
                          calls[1].result.metrics.baseline)
    /\ calls[1].result.metrics.baseline.elements = 100
    /\ calls[1].result.metrics.current.elements = 120
    /\ calls[1].result.level = "minor"

\* C9: when the vector has more dialogs than the baseline, the result is major,
\* its major reasons hold the dialog reason with the delta, and both a
\* screenshot and a snapshot are recommended, whatever the other metrics and
\* the thresholds.
C9_DialogIsMajor ==
    \A c \in CallIds :
        Detected(c) /\ ~calls[c].first
        /\ calls[c].result.metrics.current.dialogs
               > calls[c].result.metrics.baseline.dialogs =>
            LET r == calls[c].result
                d == r.metrics.current.dialogs - r.metrics.baseline.dialogs
            IN  /\ r.level = "major"
                /\ \E i \in 1..Len(r.majorReasons) :
                       r.majorReasons[i] = Reason("# dialog(s) appeared", d)
                /\ r.shouldTakeSnapshot = TRUE
                /\ r.shouldTakeScreenshot = TRUE

\* C9 witness: one dialog more with the element count unchanged, under a
\* major.dialogDelta of 3
C9_Witness ==
    /\ Detected(1) /\ ~calls[1].first
    /\ calls[1].result.metrics.baseline.dialogs = 0
    /\ calls[1].result.metrics.current.dialogs = 1
    /\ calls[1].result.metrics.current.elements = calls[1].result.metrics.baseline.elements
    /\ detector.thresholds.major.dialogDelta = 3
    /\ calls[1].result.level = "major"

\* C10: a detect, reset or update call on a tab with no detector answers with
\* the not-initialized message, does not invoke the engine, does not throw and
\* leaves the tab without a detector.
C10_NotInitializedRejected ==
    \A c \in CallIds :
        calls[c].pc = "done" /\ calls[c].tool \in {"detect", "reset", "update"}
        /\ detector = undefined /\ ~calls[c].rejected =>
            /\ calls[c].response = <<Message(NotInitializedMessage)>>
            /\ calls[c].invoked = FALSE
            /\ calls[c].threw = FALSE
            /\ calls[c].result = null

\* C10 witness: an update call has returned on a tab where init was never called
C10_Witness ==
    /\ calls[1].pc = "done" /\ calls[1].tool = "update" /\ ~calls[1].rejected
    /\ detector = undefined
    /\ calls[1].response = <<Message(NotInitializedMessage)>>

\* C11: in every result, level is major exactly when there are major reasons,
\* minor exactly when there are none and there are minor reasons, none
\* otherwise; changed and shouldTakeScreenshot are true exactly when the level
\* is not none.
C11_LevelFromReasons ==
    \A c \in CallIds :
        Detected(c) =>
            LET r == calls[c].result
            IN  /\ r.level = "major" <=> r.majorReasons # <<>>
                /\ r.level = "minor" <=> (r.majorReasons = <<>> /\ r.minorReasons # <<>>)
                /\ r.level = "none" <=> (r.majorReasons = <<>> /\ r.minorReasons = <<>>)
                /\ r.changed <=> r.level # "none"
                /\ r.shouldTakeScreenshot <=> r.level # "none"

\* C11 witness: a comparison with minor reasons only
C11_Witness ==
    /\ Detected(1) /\ ~calls[1].first
    /\ calls[1].result.majorReasons = <<>>
    /\ Len(calls[1].result.minorReasons) = 2
    /\ calls[1].result.level = "minor"
    /\ calls[1].result.changed

\* the text of one of the four reasons that ask for a snapshot
SnapshotText(text) ==
    text \in {"URL changed", "# dialog(s) appeared", "# overlay(s) appeared",
              "Form count changed by #"}

\* C12: in a comparison shouldTakeSnapshot is true exactly when a major reason
\* is a URL, dialog, overlay or form-count reason, that is exactly when the URL
\* differs from the baseline's, or dialogs or overlays increased, or the form
\* count moved by major.formDelta or more; so it is never true in a minor or
\* none result, and it implies shouldTakeScreenshot.
C12_SnapshotSignals ==
    \A c \in CallIds :
        Detected(c) =>
            LET r == calls[c].result
                cur == r.metrics.current
                base == r.metrics.baseline
            IN  /\ r.shouldTakeSnapshot <=>
                       \E i \in 1..Len(r.majorReasons) : SnapshotText(r.majorReasons[i].text)
                /\ ~calls[c].first =>
                       (r.shouldTakeSnapshot <=>
                           \/ cur.url # base.url
                           \/ cur.dialogs > base.dialogs
                           \/ cur.overlays > base.overlays
                           \/ Abs(cur.forms - base.forms) >= detector.thresholds.major.formDelta)
                /\ r.shouldTakeSnapshot => r.level = "major"
                /\ r.shouldTakeSnapshot => r.shouldTakeScreenshot

\* C12 witness: a snapshot asked for by a form-count change alone
C12_Witness ==
    /\ Detected(1) /\ ~calls[1].first
    /\ calls[1].result.shouldTakeSnapshot
    /\ calls[1].result.majorReasons = <<Reason("Form count changed by #", 1)>>
    /\ detector.thresholds.major.formDelta = 1

\* reasons has an entry with this text
HasReason(reasons, text) == \E i \in 1..Len(reasons) : reasons[i].text = text

\* C13 as stated: under every threshold configuration the engine can hold, a
\* comparison whose dialog count, overlay count or maximum z-index is at most
\* the baseline's never gives the dialog, overlay or z-index reason for it.
C13_OnlyIncreasesFlagged ==
    \A c \in CallIds :
        Detected(c) /\ ~calls[c].first =>
            LET r == calls[c].result
                cur == r.metrics.current
                base == r.metrics.baseline
            IN  /\ cur.dialogs <= base.dialogs
                       => ~HasReason(r.majorReasons, "# dialog(s) appeared")
                /\ cur.overlays <= base.overlays
                       => ~HasReason(r.majorReasons, "# overlay(s) appeared")
                /\ cur.maxZIndex <= base.maxZIndex
                       => ~HasReason(r.majorReasons, "Z-index increased by #")

\* C13, amended: a dialog or overlay count at most the baseline's never gives
\* the dialog or overlay reason, under any thresholds; a maximum z-index at
\* most the baseline's never gives the z-index reason when major.zIndexDelta is
\* positive.
C13_OnlyIncreasesFlaggedWhenPositive ==
    \A c \in CallIds :
        Detected(c) /\ ~calls[c].first =>
            LET r == calls[c].result
                cur == r.metrics.current
                base == r.metrics.baseline
            IN  /\ cur.dialogs <= base.dialogs
                       => ~HasReason(r.majorReasons, "# dialog(s) appeared")
                /\ cur.overlays <= base.overlays
                       => ~HasReason(r.majorReasons, "# overlay(s) appeared")
                /\ cur.maxZIndex <= base.maxZIndex /\ detector.thresholds.major.zIndexDelta > 0
                       => ~HasReason(r.majorReasons, "Z-index increased by #")

\* C13 witness: the maximum z-index fell by a whole threshold and nothing is
\* reported
C13_Witness ==
    /\ Detected(1) /\ ~calls[1].first
    /\ calls[1].result.metrics.delta.zIndex = -500
    /\ detector.thresholds.major.zIndexDelta = 500
    /\ IsNone(calls[1].result)

\* the texts of the major reasons, in the order the claim fixes
MajorOrder ==
    <<"URL changed", "# dialog(s) appeared", "# overlay(s) appeared",
      "Form count changed by #", "# elements changed", "Z-index increased by #",
      "# fixed elements changed", "# absolute elements changed",
      "Viewport height changed #%">>

Rank(text) == CHOOSE k \in 1..Len(MajorOrder) : MajorOrder[k] = text

\* the k-th major condition, on the two vectors and the thresholds
MajorFired(k, cur, base, t) ==
    CASE k = 1 -> cur.url # base.url
      [] k = 2 -> cur.dialogs > base.dialogs
      [] k = 3 -> cur.overlays > base.overlays
      [] k = 4 -> Abs(cur.forms - base.forms) >= t.major.formDelta
      [] k = 5 -> Abs(cur.elements - base.elements) >= t.major.elementDelta
      [] k = 6 -> cur.maxZIndex - base.maxZIndex >= t.major.zIndexDelta
      [] k = 7 -> cur.fixedElements # base.fixedElements
      [] k = 8 -> cur.absoluteElements # base.absoluteElements
      [] k = 9 -> Abs(cur.viewportHeight - base.viewportHeight) * 100
                      >= t.major.viewportDelta * OrOne(base.viewportHeight)

\* C14: in a comparison majorReasons holds exactly the major conditions that
\* fired, in the fixed order URL, dialog, overlay, form count, element count,
\* z-index, fixed, absolute, viewport height; reasons is majorReasons followed
\* by minorReasons; and in a major result the filename slug is made from the
\* first entry, so from 'URL changed' whenever the URL changed.
C14_ReasonOrder ==
    \A c \in CallIds :
        Detected(c) /\ ~calls[c].first =>
            LET r == calls[c].result
                m == r.majorReasons
                cur == r.metrics.current
                base == r.metrics.baseline
            IN  /\ \A i, j \in 1..Len(m) : i < j => Rank(m[i].text) < Rank(m[j].text)
                /\ \A k \in 1..Len(MajorOrder) :
                       MajorFired(k, cur, base, detector.thresholds)
                           <=> HasReason(m, MajorOrder[k])
                /\ r.reasons = m \o r.minorReasons
                /\ r.level = "major" => r.suggestedFilename.slug = Slug(m[1])
                /\ cur.url # base.url => r.suggestedFilename.slug.text = "url_changed"

\* C14 witness: the URL and the fixed-element count changed together
C14_Witness ==
    /\ Detected(1) /\ ~calls[1].first
    /\ calls[1].result.majorReasons
           = <<Reason("URL changed", 0), Reason("# fixed elements changed", 1)>>
    /\ calls[1].result.reasons = calls[1].result.majorReasons
    /\ calls[1].result.suggestedFilename.slug.text = "url_changed"

\* call c's resetBaseline() runs in this step
ResetStep(c) ==
    calls[c].pc = "call" /\ calls[c].tool = "reset" /\ calls'[c].pc = "done"
    /\ calls'[c].invoked

\* C15: resetBaseline leaves the baseline absent and returns the baseline that
\* was stored immediately before it; run right after another resetBaseline it
\* returns an absent previous baseline and leaves the detector as it was.
C15_ResetReturnsPrevious ==
    [][\A c \in CallIds :
          ResetStep(c) =>
              /\ detector'.baseline = null
              /\ calls'[c].result.previousBaseline = detector.baseline
              /\ calls'[c].result.previousBaseline = hist.lastClassified
              /\ hist.resetLast =>
                     /\ calls'[c].result.previousBaseline = null
                     /\ detector' = detector]_vars

\* C15 witness: a reset has returned a stored vector and left none
C15_Witness ==
    /\ calls[1].pc = "done" /\ calls[1].tool = "reset" /\ calls[1].invoked
    /\ calls[1].result.previousBaseline \in Vectors \ {BasePage}
    /\ detector.baseline = null

\* C16: detectChanges and resetBaseline leave the thresholds as they were, and
\* updateThresholds leaves the baseline as it was.
C16_Frame ==
    [][\A c \in CallIds :
          /\ DetectStep(c) \/ ResetStep(c) => detector'.thresholds = detector.thresholds
          /\ UpdateStep(c) => detector'.baseline = detector.baseline]_vars

\* C16 witness: thresholds were changed while a vector was stored, and it still is
C16_Witness ==
    /\ calls[1].pc = "done" /\ calls[1].tool = "update" /\ calls[1].invoked
    /\ calls[1].result.thresholds.major.elementDelta = 5
    /\ detector.thresholds = calls[1].result.thresholds
    /\ detector.baseline \in Vectors
    /\ detector.baseline = hist.lastClassified

\* C17: when two detect calls overlap, the one whose detectChanges runs second
\* is compared against the vector the other stored, whatever baseline was
\* stored when it was issued, and under the same thresholds: the two results
\* are those of the two calls made one after the other in that order.
C17_OverlappingDetects ==
    [][\A c, o \in CallIds :
          c # o /\ DetectStep(c) /\ calls[c].overtaken /\ Detected(o) =>
              LET r == calls'[c].result
                  stored == calls[o].result.metrics.current
              IN  /\ r.metrics.baseline = stored
                  /\ r = Compare(r.metrics.current, stored, detector.thresholds)
                  /\ detector'.baseline = r.metrics.current
                  /\ calls'[o].result = calls[o].result]_vars

\* C17 witness: call 1 replaced the baseline while call 2 was in progress, and
\* call 2 was compared against what call 1 stored
C17_Witness ==
    /\ Detected(1) /\ Detected(2) /\ calls[2].overtaken /\ ~calls[1].overtaken
    /\ ~calls[1].first
    /\ calls[1].result.metrics.baseline # calls[1].result.metrics.current
    /\ calls[2].result.metrics.baseline = calls[1].result.metrics.current
    /\ calls[2].result.level = "major"

\* the configuration init call o asks for
Requested(o) == MergedThresholds(DefaultThresholds, calls[o].params.thresholds)

\* the configurations in force before init call o and after it
AroundInit(o) ==
    {Requested(o)} \cup
    (IF calls[o].pc = "init_apply"
     THEN IF calls[o].replaced = undefined THEN {} ELSE {calls[o].replaced.thresholds}
     ELSE {detector.thresholds})

\* C19: init with custom thresholds is atomic for the other calls: a detect
\* call that overlaps an init never makes its comparison under thresholds other
\* than those in force before the init or those the init asks for.
C19_InitAtomic ==
    [][\A c, o \in CallIds :
          /\ c # o /\ DetectStep(c) /\ detector.baseline # null
          /\ calls[o].tool = "init" /\ calls[o].params.given /\ InProgress(calls[o])
          => detector.thresholds \in AroundInit(o)]_vars

\* values for the two thresholds detectChanges has no test for
UnreadValues == {0, 4}

\* the detector with major.dialogDelta and major.overlayDelta set to dd and od
Twin(dd, od) ==
    [detector EXCEPT !.thresholds.major.dialogDelta = dd,
                     !.thresholds.major.overlayDelta = od]

\* C18: detectChanges does not consult major.dialogDelta or major.overlayDelta:
\* a detector that differs from the one a call runs on in these two fields only
\* returns, for the same vector, the same level, reasons, recommendations and
\* filename, and stores the same baseline, so the two stay in step over any
\* sequence of vectors.
C18_UnreadThresholds ==
    [][\A c \in CallIds :
          DetectStep(c) =>
              \A dd, od \in UnreadValues :
                  LET twin == DetectChanges(Twin(dd, od), calls'[c].result.metrics.current)
                  IN  /\ twin.result = calls'[c].result
                      /\ twin.detector.baseline = detector'.baseline]_vars

\* C18 witness: one overlay more under a major.overlayDelta of 2
C18_Witness ==
    /\ Detected(1) /\ ~calls[1].first
    /\ calls[1].result.metrics.delta.overlays = 1
    /\ detector.thresholds.major.overlayDelta = 2
    /\ calls[1].result.majorReasons = <<Reason("# overlay(s) appeared", 1)>>

\* C20: under the default thresholds, while every vector differs from the one
\* before it only in the element count and by less than 20, every detectChanges
\* returns level none, however far the count has moved from the vector that
\* started the chain; each is compared with the vector just before it.
C20_DriftUnreported ==
    \A c \in CallIds :
        Detected(c) /\ hist.steady /\ detector.thresholds = DefaultThresholds =>
            /\ IsNone(calls[c].result)
            /\ ~calls[c].first =>
                   Abs(calls[c].result.metrics.current.elements
                       - calls[c].result.metrics.baseline.elements) < 20

\* C20 witness: the count has moved 100 or more from the first baseline in
\* small steps, and the last step is reported as no change
C20_Witness ==
    /\ Detected(1) /\ ~calls[1].first /\ hist.steady
    /\ Abs(calls[1].result.metrics.current.elements - hist.origin.elements) >= 100
    /\ calls[1].result.level = "none"
    /\ calls[1].result.changed = FALSE
====
